---- MODULE Spec2Model ----
(***************************************************************************)
(* Splice-based sorting of linked ranges (enranged).                       *)
(*                                                                         *)
(* The range is the reference singly linked list of test/linked_list.hpp:  *)
(* nodes with a value and a next pointer, a head pointer per list.  Node   *)
(* identities are 1..n and the list is built in the order 1, 2, ..., n, so *)
(* a node's identity is its original position (the stability tag).         *)
(* Iterators are node identities, end() is NIL and the front sentinel is   *)
(* FS.  Every algorithm runs as frames on a call stack; one action is one  *)
(* entry block or one iteration of the outer loop of a function and makes  *)
(* at most one relocation.                                                 *)
(***************************************************************************)
EXTENDS Integers, Sequences, FiniteSets, TLC

\* ------------------------------------------------------------------ bounds
MaxLen == 5        \* longest list given to insertion sort / merge
MaxLenMS == 7      \* longest list given to merge sort
MaxLenBS == 4      \* longest list given to bucket sort
MaxLenCS == 4      \* length of each list in the cosplice scenarios
MaxVal == 3        \* element values are 0 .. MaxVal-1
MaxValMS == 2      \* element values for merge sort are 0 .. MaxValMS-1
MaxValBS == 4      \* element values for bucket sort are 0 .. MaxValBS-1
MaxBuckets == 3    \* largest _max_buckets instantiated
MaxShift == 2      \* largest shift k of the relation (x>>k) == (y>>k)
MaxCap == 4        \* largest capacity _max_size of a flat_list used on its own
MaxClears == 1     \* calls of flat_list::clear() in one behaviour
MaxCapPos == 300   \* every capacity 0 .. MaxCapPos is given to pos_t
MaxPosBit == 29    \* capacities 2^k - 1, 2^k, 2^k + 1 are given for k <= MaxPosBit
MaxCount == 200    \* every count 0 .. MaxCount goes through the chunk schedule
MaxCountBit == 20  \* as do the counts next to 2^1 .. 2^MaxCountBit
MaxValTerm == 2    \* element values of the termination runs are 0 .. MaxValTerm-1

\* --------------------------------------------------------------- constants
NIL == 0           \* nullptr: the end() iterator of linked_list
FS == -1           \* linked_list::front_sentinel (before_begin())
NoRet == FS - 1    \* no call has returned yet
MergeThreshold == 4

VARIABLES
  val,      \* node -> value (node_t::value), never changed by the algorithms
  head_,    \* list id -> first node (linked_list::head_)
  last_,    \* list id -> linked_list::last_
  nxt,      \* node -> next node (node_t::next)
  stack,    \* call stack of frames, the running call is the last one
  ret,      \* value returned by the call that finished last
  ncomp,    \* calls of comp made by insertion sort and merge so far
  nsplice,  \* number of relocations (cosplice calls) so far
  memory,   \* the flat_list of bucket descriptors of bucket_sort_splice
  cfg       \* the arguments of the outermost call (constant in a behaviour)

vars == <<val, head_, last_, nxt, stack, ret, ncomp, nsplice, memory, cfg>>

Nodes == DOMAIN val

\* ------------------------------------------------------------ list helpers
RECURSIVE Pow2(_)
Pow2(k) == IF k = 0 THEN 1 ELSE 2 * Pow2(k - 1)

Shr(x, k) == x \div Pow2(k)

\* The nodes met from n following next pointers, at most fuel of them
RECURSIVE Walk(_, _, _)
Walk(nx, n, fuel) ==
  IF n = NIL \/ fuel = 0 THEN <<>>
  ELSE <<n>> \o Walk(nx, nx[n], fuel - 1)

\* The traversal begin()..end() of list l (cut after n+1 nodes on a cycle)
ListSeqOf(h, nx, l) == Walk(nx, h[l], Cardinality(DOMAIN nx) + 1)

ListSeq == ListSeqOf(head_, nxt, 1)

SeqSet(s) == {s[i] : i \in 1..Len(s)}

\* The list built by linked_list(size) + ranges::copy: nodes lo..hi in order
BuildNext(lo, hi) == [i \in lo..hi |-> IF i = hi THEN NIL ELSE i + 1]

\* limits.hpp after(): successor of a left limit
AfterOf(h, nx, l, lim) == IF lim = FS THEN h[l] ELSE nx[lim]

After(lim) == AfterOf(head_, nxt, 1, lim)

\* ------------------------------------------------------------ predicates
\* comp is a strict weak order: x < y iff (x >> cshift) < (y >> cshift);
\* val gives the rank of each element, so every strict weak order with at
\* most MaxVal classes is covered by the choice of val
Comp(a, b) == Shr(val[a], cfg.cshift) < Shr(val[b], cfg.cshift)

\* the relation x ~ y iff (x >> eshift) == (y >> eshift) of the tests
IsEq(a, b) == Shr(val[a], cfg.eshift) = Shr(val[b], cfg.eshift)

\* -------------------------------------------------------------- cosplice
\* (faulty variant of LLCosplice) the source is unlinked with the successor
\* of lt instead of the successor of rt: only one element leaves the source
LLCospliceUnlinkOne(h, nx, d, pos, s, lt, rt) ==
  LET left_node == IF lt # FS THEN nx[lt] ELSE h[s]
      nx1 == IF lt # FS THEN [nx EXCEPT ![lt] = nx[left_node]] ELSE nx
      h1 == IF lt # FS THEN h ELSE [h EXCEPT ![s] = nx[left_node]]
      nx2 == IF pos # FS
             THEN [[nx1 EXCEPT ![rt] = nx1[pos]] EXCEPT ![pos] = left_node]
             ELSE [nx1 EXCEPT ![rt] = h1[d]]
      h2 == IF pos # FS THEN h1 ELSE [h1 EXCEPT ![d] = left_node]
  IN [h |-> h2, nx |-> nx2]

\* (faulty variant of LLCosplice) the assignment rt->next = pos->next is
\* missing: the elements that followed pos are no longer reachable
LLCospliceKeepTail(h, nx, d, pos, s, lt, rt) ==
  LET left_node == IF lt # FS THEN nx[lt] ELSE h[s]
      nx1 == IF lt # FS THEN [nx EXCEPT ![lt] = nx[rt]] ELSE nx
      h1 == IF lt # FS THEN h ELSE [h EXCEPT ![s] = nx[rt]]
      nx2 == IF pos # FS THEN [nx1 EXCEPT ![pos] = left_node] ELSE nx1
      h2 == IF pos # FS THEN h1 ELSE [h1 EXCEPT ![d] = left_node]
  IN [h |-> h2, nx |-> nx2]

\* linked_list::cosplice(pos, other, lt, rt) called on list d with other = s:
\* unlink (lt, rt] from s, then link it after pos in d.  The assignments
\* are made in the order of the code.
LLCosplice(h, nx, d, pos, s, lt, rt) ==
  LET left_node == IF lt # FS THEN nx[lt] ELSE h[s]
      nx1 == IF lt # FS THEN [nx EXCEPT ![lt] = nx[rt]] ELSE nx
      h1 == IF lt # FS THEN h ELSE [h EXCEPT ![s] = nx[rt]]
      nx2 == IF pos # FS
             THEN [[nx1 EXCEPT ![rt] = nx1[pos]] EXCEPT ![pos] = left_node]
             ELSE [nx1 EXCEPT ![rt] = h1[d]]
      h2 == IF pos # FS THEN h1 ELSE [h1 EXCEPT ![d] = left_node]
  IN [h |-> h2, nx |-> nx2]

\* The left limit before x in list l (FS when x is the first element)
Pred(h, nx, l, x) ==
  LET c == {n \in SeqSet(ListSeqOf(h, nx, l)) : nx[n] = x}
  IN IF c = {} THEN FS ELSE CHOOSE n \in c : TRUE

\* splice(p, other, first, last) with the semantics of std::list: moves
\* [first, last) of s before p in d
StdSplice(h, nx, d, p, s, first, last) ==
  IF first = last THEN [h |-> h, nx |-> nx]
  ELSE LLCosplice(h, nx, d, Pred(h, nx, d, p), s, Pred(h, nx, s, first),
                  Pred(h, nx, s, last))

\* splice(p, other, it) with the semantics of std::list: moves it before p
StdSpliceOne(h, nx, d, p, s, it) ==
  LLCosplice(h, nx, d, Pred(h, nx, d, p), s, Pred(h, nx, s, it), it)

\* splice_after(pos, other, first, last) with the semantics of
\* std::forward_list: moves the open interval (first, last) of s after pos
StdSpliceAfter(h, nx, d, pos, s, first, last) ==
  IF AfterOf(h, nx, s, first) = last THEN [h |-> h, nx |-> nx]
  ELSE LLCosplice(h, nx, d, pos, s, first, Pred(h, nx, s, last))

\* splice_after(pos, other, it): moves the element following it after pos
StdSpliceAfterOne(h, nx, d, pos, s, it) ==
  LLCosplice(h, nx, d, pos, s, it, AfterOf(h, nx, s, it))

\* linked_list::cosplice(pos, other, it)
LLCospliceOne(h, nx, d, pos, s, it) ==
  LLCosplice(h, nx, d, pos, s, it, AfterOf(h, nx, s, it))

\* (faulty variant of Cosplice) rt itself is given to splice_after as the
\* end of the open interval, so the last element stays behind
CospliceShort(kind, h, nx, d, pos, s, lt, rt) ==
  IF kind = "cosplice" THEN LLCosplice(h, nx, d, pos, s, lt, rt)
  ELSE IF kind = "splice"
  THEN StdSplice(h, nx, d, AfterOf(h, nx, d, pos), s, AfterOf(h, nx, s, lt), rt)
  ELSE StdSpliceAfter(h, nx, d, pos, s, lt, rt)

\* cosplice(dst_range, pos, src_range, lt, rt): kind is the capability of
\* the range type ("cosplice": linked_list, "splice": std::list,
\* "splice_after": std::forward_list)
Cosplice(kind, h, nx, d, pos, s, lt, rt) ==
  IF kind = "cosplice" THEN LLCosplice(h, nx, d, pos, s, lt, rt)
  ELSE IF kind = "splice"
  THEN StdSplice(h, nx, d, AfterOf(h, nx, d, pos), s, AfterOf(h, nx, s, lt),
                 nx[rt])
  ELSE StdSpliceAfter(h, nx, d, pos, s, lt, nx[rt])

\* cosplice(dst_range, pos, src_range, it)
CospliceSingle(kind, h, nx, d, pos, s, it) ==
  IF kind = "cosplice" THEN LLCospliceOne(h, nx, d, pos, s, it)
  ELSE IF kind = "splice_after" THEN StdSpliceAfterOne(h, nx, d, pos, s, it)
  ELSE StdSpliceOne(h, nx, d, AfterOf(h, nx, d, pos), s,
                    AfterOf(h, nx, s, it))

\* cosplice(range, pos, lt, rt): the overload for one range (the sorting
\* algorithms run on linked_list)
CospliceIn(h, nx, pos, lt, rt) ==
  Cosplice("cosplice", h, nx, 1, pos, 1, lt, rt)

\* cosplice(range, pos, it): moves the element following it
CospliceOne(h, nx, pos, it) ==
  CospliceSingle("cosplice", h, nx, 1, pos, 1, it)

\* ------------------------------------------------------------ call stack
Top == stack[Len(stack)]
Running(f, p) == stack # <<>> /\ Top.fn = f /\ Top.pc = p
Pop == SubSeq(stack, 1, Len(stack) - 1)
SetTop(fr) == [stack EXCEPT ![Len(stack)] = fr]

ISFrame(left, size) ==
  [fn |-> "is", pc |-> "start", left |-> left, size |-> size,
   first |-> NIL, lhs |-> NIL]

\* ------------------------------------------------- insertion_sort_splice
\* (faulty variant of ISFindPos) the scan stops before the elements equal
\* to *rhs, as with the test comp(*pos_next, *rhs)
RECURSIVE ISFindPosUnstable(_, _, _, _)
ISFindPosUnstable(nx, rhs, pos, n) ==
  LET pos_next == nx[pos] IN
  IF Comp(pos_next, rhs) THEN ISFindPosUnstable(nx, rhs, pos_next, n + 1)
  ELSE [pos |-> pos, n |-> n + 1]

\* Lines 243-245: the last element of the sorted part that is <= *rhs.
\* Returns the position and the number of comparisons made.
RECURSIVE ISFindPos(_, _, _, _)
ISFindPos(nx, rhs, pos, n) ==
  LET pos_next == nx[pos] IN
  IF ~Comp(rhs, pos_next) THEN ISFindPos(nx, rhs, pos_next, n + 1)
  ELSE [pos |-> pos, n |-> n + 1]

\* Entry of insertion_sort_splice up to the loop (lines 205-219)
ISStart ==
  /\ Running("is", "start")
  /\ LET f == Top
         first == After(f.left)
     IN IF f.size < 2
        THEN /\ stack' = Pop
             /\ ret' = first
             /\ UNCHANGED <<head_, nxt, ncomp, nsplice>>
        ELSE LET lhs == first
                 rhs == nxt[lhs]
             IN /\ ncomp' = ncomp + 1
                /\ ret' = ret
                /\ IF ~Comp(rhs, lhs)
                   THEN /\ stack' = SetTop([f EXCEPT !.pc = "loop",
                                              !.size = f.size - 2,
                                              !.first = first, !.lhs = rhs])
                        /\ UNCHANGED <<head_, nxt, nsplice>>
                   ELSE LET r == CospliceOne(head_, nxt, f.left, lhs)
                        IN /\ head_' = r.h
                           /\ nxt' = r.nx
                           /\ nsplice' = nsplice + 1
                           /\ stack' = SetTop([f EXCEPT !.pc = "loop",
                                                 !.size = f.size - 2,
                                                 !.first = rhs, !.lhs = lhs])
  /\ UNCHANGED <<val, last_, memory, cfg>>

\* (faulty variant of ISLoop) the front test of line 236 is made before the
\* fast-forward test of line 224: an element in order costs two comparisons
ISLoopFrontFirst ==
  /\ Running("is", "loop")
  /\ LET f == Top IN
     IF f.size = 0
     THEN /\ stack' = Pop
          /\ ret' = f.lhs
          /\ UNCHANGED <<head_, nxt, ncomp, nsplice>>
     ELSE
       LET rhs == nxt[f.lhs] IN
       /\ ret' = ret
       /\ IF Comp(rhs, f.first)
          THEN LET r == CospliceOne(head_, nxt, f.left, f.lhs)
               IN /\ head_' = r.h
                  /\ nxt' = r.nx
                  /\ nsplice' = nsplice + 1
                  /\ ncomp' = ncomp + 1
                  /\ stack' = SetTop([f EXCEPT !.size = f.size - 1,
                                               !.first = rhs])
          ELSE IF ~Comp(rhs, f.lhs)
          THEN /\ stack' = SetTop([f EXCEPT !.size = f.size - 1, !.lhs = rhs])
               /\ ncomp' = ncomp + 2
               /\ UNCHANGED <<head_, nxt, nsplice>>
          ELSE LET p == ISFindPos(nxt, rhs, f.first, 0)
                   r == CospliceOne(head_, nxt, p.pos, f.lhs)
               IN /\ head_' = r.h
                  /\ nxt' = r.nx
                  /\ nsplice' = nsplice + 1
                  /\ ncomp' = ncomp + 2 + p.n
                  /\ stack' = SetTop([f EXCEPT !.size = f.size - 1])
  /\ UNCHANGED <<val, last_, memory, cfg>>

\* One iteration of the loop of insertion_sort_splice (lines 220-250)
ISLoop ==
  /\ Running("is", "loop")
  /\ LET f == Top IN
     IF f.size = 0
     THEN /\ stack' = Pop
          /\ ret' = f.lhs
          /\ UNCHANGED <<head_, nxt, ncomp, nsplice>>
     ELSE
       LET rhs == nxt[f.lhs] IN
       /\ ret' = ret
       /\ IF ~Comp(rhs, f.lhs)
          THEN /\ stack' = SetTop([f EXCEPT !.size = f.size - 1, !.lhs = rhs])
               /\ ncomp' = ncomp + 1
               /\ UNCHANGED <<head_, nxt, nsplice>>
          ELSE IF Comp(rhs, f.first)
          THEN LET r == CospliceOne(head_, nxt, f.left, f.lhs)
               IN /\ head_' = r.h
                  /\ nxt' = r.nx
                  /\ nsplice' = nsplice + 1
                  /\ ncomp' = ncomp + 2
                  /\ stack' = SetTop([f EXCEPT !.size = f.size - 1,
                                               !.first = rhs])
          ELSE LET p == ISFindPos(nxt, rhs, f.first, 0)
                   r == CospliceOne(head_, nxt, p.pos, f.lhs)
               IN /\ head_' = r.h
                  /\ nxt' = r.nx
                  /\ nsplice' = nsplice + 1
                  /\ ncomp' = ncomp + 2 + p.n
                  /\ stack' = SetTop([f EXCEPT !.size = f.size - 1])
  /\ UNCHANGED <<val, last_, memory, cfg>>

\* ------------------------------------------------- coinplace_merge_splice
MGFrame(left, middle, last) ==
  [fn |-> "mg", pc |-> "start", left |-> left, middle |-> middle,
   last |-> last, end |-> NIL, lhs |-> NIL, rhs |-> NIL]

\* (faulty variant of MGRun) the run also takes the right-hand elements
\* equivalent to *bound, as with the test !comp(*bound, *rhs_next)
RECURSIVE MGRunUnstable(_, _, _, _, _)
MGRunUnstable(nx, rhs, bound, end, n) ==
  LET rhs_next == nx[rhs] IN
  IF rhs_next # end /\ ~Comp(bound, rhs_next)
  THEN MGRunUnstable(nx, rhs_next, bound, end, n + 1)
  ELSE [rhs |-> rhs, rhs_next |-> rhs_next,
        n |-> IF rhs_next # end THEN n + 1 ELSE n]

\* (faulty variant of MGRun) the run is bounded by the end of the range and
\* not by the element after last, as with the test rhs_next != end(range)
RECURSIVE MGRunPastLast(_, _, _, _, _)
MGRunPastLast(nx, rhs, bound, end, n) ==
  LET rhs_next == nx[rhs] IN
  IF rhs_next # NIL /\ Comp(rhs_next, bound)
  THEN MGRunPastLast(nx, rhs_next, bound, end, n + 1)
  ELSE [rhs |-> rhs, rhs_next |-> rhs_next,
        n |-> IF rhs_next # NIL THEN n + 1 ELSE n]

\* (faulty variant of MGRun) the run is never extended: one right-hand
\* element is moved at a time
RECURSIVE MGRunOne(_, _, _, _, _)
MGRunOne(nx, rhs, bound, end, n) ==
  [rhs |-> rhs, rhs_next |-> nx[rhs], n |-> IF nx[rhs] # end THEN 1 ELSE 0]

\* Lines 168 and 190: extend the run that starts at rhs while the next
\* right-hand element is before end and compares less than *bound
RECURSIVE MGRun(_, _, _, _, _)
MGRun(nx, rhs, bound, end, n) ==
  LET rhs_next == nx[rhs] IN
  IF rhs_next # end /\ Comp(rhs_next, bound)
  THEN MGRun(nx, rhs_next, bound, end, n + 1)
  ELSE [rhs |-> rhs, rhs_next |-> rhs_next,
        n |-> IF rhs_next # end THEN n + 1 ELSE n]

\* (faulty variant of MGFindLeft) the scan stops at the first left-hand
\* element that is not less than *rhs, as with the test comp(*lhs_next, *rhs)
RECURSIVE MGFindLeftUnstable(_, _, _, _)
MGFindLeftUnstable(nx, rhs, lhs, n) ==
  LET lhs_next == nx[lhs] IN
  IF Comp(lhs_next, rhs) THEN MGFindLeftUnstable(nx, rhs, lhs_next, n + 1)
  ELSE [lhs |-> lhs, lhs_next |-> lhs_next, n |-> n + 1]

\* Line 185: the first left-hand element that is greater than *rhs
RECURSIVE MGFindLeft(_, _, _, _)
MGFindLeft(nx, rhs, lhs, n) ==
  LET lhs_next == nx[lhs] IN
  IF ~Comp(rhs, lhs_next) THEN MGFindLeft(nx, rhs, lhs_next, n + 1)
  ELSE [lhs |-> lhs, lhs_next |-> lhs_next, n |-> n + 1]

\* (faulty variant of MGAfterSplice) last is returned when the right-hand
\* part is exhausted, although middle is then the last element
MGAfterSpliceLast(f, lhs_next, rhs_next, n) ==
  IF rhs_next = f.end \/ lhs_next = f.middle
  THEN /\ stack' = Pop
       /\ ret' = f.last
       /\ ncomp' = ncomp + n
  ELSE IF ~Comp(rhs_next, f.middle)
  THEN /\ stack' = Pop
       /\ ret' = f.last
       /\ ncomp' = ncomp + n + 1
  ELSE /\ stack' = SetTop([f EXCEPT !.pc = "loop", !.lhs = lhs_next,
                                    !.rhs = rhs_next])
       /\ ret' = ret
       /\ ncomp' = ncomp + n + 1

\* Lines 172-175 and 194-198: what follows a relocation of the run ending
\* before rhs_next, lhs_next being the left-hand element it was put before
MGAfterSplice(f, lhs_next, rhs_next, n) ==
  IF rhs_next = f.end
  THEN /\ stack' = Pop
       /\ ret' = f.middle
       /\ ncomp' = ncomp + n
  ELSE IF lhs_next = f.middle
  THEN /\ stack' = Pop
       /\ ret' = f.last
       /\ ncomp' = ncomp + n
  ELSE IF ~Comp(rhs_next, f.middle)
  THEN /\ stack' = Pop
       /\ ret' = f.last
       /\ ncomp' = ncomp + n + 1
  ELSE /\ stack' = SetTop([f EXCEPT !.pc = "loop", !.lhs = lhs_next,
                                    !.rhs = rhs_next])
       /\ ret' = ret
       /\ ncomp' = ncomp + n + 1

\* (faulty variant of MGStart) the test of line 155 is left out: the merge
\* goes on to look at the front element when the parts are already in order
MGStartNoShortcut ==
  /\ Running("mg", "start")
  /\ LET f == Top IN
     IF f.middle = f.last
     THEN /\ stack' = Pop
          /\ ret' = f.last
          /\ UNCHANGED <<head_, nxt, ncomp, nsplice>>
     ELSE
       LET rhs == nxt[f.middle]
           end == nxt[f.last]
           g == [f EXCEPT !.end = end]
           lhs == After(f.left)
       IN
       IF Comp(rhs, lhs)
       THEN LET run == MGRun(nxt, rhs, lhs, end, 0)
                r == CospliceIn(head_, nxt, f.left, f.middle, run.rhs)
            IN /\ head_' = r.h
               /\ nxt' = r.nx
               /\ nsplice' = nsplice + 1
               /\ MGAfterSplice(g, lhs, run.rhs_next, 1 + run.n)
       ELSE /\ stack' = SetTop([g EXCEPT !.pc = "loop", !.lhs = lhs,
                                         !.rhs = rhs])
            /\ ret' = ret
            /\ ncomp' = ncomp + 1
            /\ UNCHANGED <<head_, nxt, nsplice>>
  /\ UNCHANGED <<val, last_, memory, cfg>>

\* Entry of coinplace_merge_splice up to the main loop (lines 147-176)
MGStart ==
  /\ Running("mg", "start")
  /\ LET f == Top IN
     IF f.middle = f.last
     THEN /\ stack' = Pop
          /\ ret' = f.last
          /\ UNCHANGED <<head_, nxt, ncomp, nsplice>>
     ELSE
       LET rhs == nxt[f.middle]
           end == nxt[f.last]
           g == [f EXCEPT !.end = end]
       IN
       IF ~Comp(rhs, f.middle)
       THEN /\ stack' = Pop
            /\ ret' = f.last
            /\ ncomp' = ncomp + 1
            /\ UNCHANGED <<head_, nxt, nsplice>>
       ELSE
         LET lhs == After(f.left) IN
         IF Comp(rhs, lhs)
         THEN LET run == MGRun(nxt, rhs, lhs, end, 0)
                  r == CospliceIn(head_, nxt, f.left, f.middle, run.rhs)
              IN /\ head_' = r.h
                 /\ nxt' = r.nx
                 /\ nsplice' = nsplice + 1
                 /\ MGAfterSplice(g, lhs, run.rhs_next, 2 + run.n)
         ELSE /\ stack' = SetTop([g EXCEPT !.pc = "loop", !.lhs = lhs,
                                           !.rhs = rhs])
              /\ ret' = ret
              /\ ncomp' = ncomp + 2
              /\ UNCHANGED <<head_, nxt, nsplice>>
  /\ UNCHANGED <<val, last_, memory, cfg>>

\* One iteration of the main loop of coinplace_merge_splice (lines 181-199)
MGLoop ==
  /\ Running("mg", "loop")
  /\ LET f == Top
         fl == MGFindLeft(nxt, f.rhs, f.lhs, 0)
         run == MGRun(nxt, f.rhs, fl.lhs_next, f.end, 0)
         r == CospliceIn(head_, nxt, fl.lhs, f.middle, run.rhs)
     IN /\ head_' = r.h
        /\ nxt' = r.nx
        /\ nsplice' = nsplice + 1
        /\ MGAfterSplice(f, fl.lhs_next, run.rhs_next, fl.n + run.n)
  /\ UNCHANGED <<val, last_, memory, cfg>>

\* ----------------------------------------------------- merge_sort_splice
RECURSIVE BitLen(_)
\* 64 - countl_zero(uint64_t(x)): the number of binary digits of x
BitLen(x) == IF x = 0 THEN 0 ELSE 1 + BitLen(x \div 2)

RECURSIVE CountrZero(_)
\* std::countr_zero of a non-zero value
CountrZero(x) == IF x % 2 = 1 THEN 0 ELSE 1 + CountrZero(x \div 2)

FirstStep == CountrZero(MergeThreshold)

MSFrame(left, size) ==
  [fn |-> "ms", pc |-> "start", left |-> left, size |-> size,
   max_steps |-> 0, l_cnt |-> 0, step |-> 0, to_sort |-> 0,
   last_sorted |-> NIL]

\* (faulty variant of MSFirstCount) the shift is one short: a front of 4 to
\* 7 elements is given to insertion sort
MSFirstCountDeep(size, max_steps) ==
  IF max_steps <= FirstStep THEN size
  ELSE Shr(size, max_steps - FirstStep - 1)

\* Line 272: the number of front elements given to insertion sort
MSFirstCount(size, max_steps) ==
  IF max_steps <= FirstStep THEN size
  ELSE Shr(size, max_steps - FirstStep)

\* Line 280: the number of elements sorted recursively at this step
MSToSort(size, max_steps, step, l_cnt) ==
  Shr(size, max_steps - step - 1) - l_cnt

\* Lines 269-275: compute the levels, call insertion sort on the front
MSStart ==
  /\ Running("ms", "start")
  /\ LET f == Top
         max_steps == BitLen(f.size)
         l_cnt == MSFirstCount(f.size, max_steps)
     IN stack' = Append(SetTop([f EXCEPT !.pc = "after_is",
                                         !.max_steps = max_steps,
                                         !.l_cnt = l_cnt]),
                        ISFrame(f.left, l_cnt))
  /\ UNCHANGED <<val, head_, last_, nxt, ret, ncomp, nsplice, memory, cfg>>

\* Lines 274-279: insertion sort has returned, enter the level loop
MSAfterIS ==
  /\ Running("ms", "after_is")
  /\ stack' = SetTop([Top EXCEPT !.pc = "loop", !.last_sorted = ret,
                                 !.step = FirstStep])
  /\ UNCHANGED <<val, head_, last_, nxt, ret, ncomp, nsplice, memory, cfg>>

\* Lines 279-284 and 293: loop test, then the recursive call or the return
MSLoop ==
  /\ Running("ms", "loop")
  /\ LET f == Top IN
     IF f.step < f.max_steps
     THEN LET to_sort == MSToSort(f.size, f.max_steps, f.step, f.l_cnt)
          IN /\ stack' = Append(SetTop([f EXCEPT !.pc = "after_ms",
                                                 !.to_sort = to_sort]),
                                MSFrame(f.last_sorted, to_sort))
             /\ ret' = ret
     ELSE /\ stack' = Pop
          /\ ret' = f.last_sorted
  /\ UNCHANGED <<val, head_, last_, nxt, ncomp, nsplice, memory, cfg>>

\* Lines 286-288: the recursive call has returned, merge the two parts
MSAfterMS ==
  /\ Running("ms", "after_ms")
  /\ LET f == Top
     IN stack' = Append(SetTop([f EXCEPT !.pc = "after_mg"]),
                        MGFrame(f.left, f.last_sorted, ret))
  /\ UNCHANGED <<val, head_, last_, nxt, ret, ncomp, nsplice, memory, cfg>>

\* Lines 286-291: the merge has returned, end of the iteration
MSAfterMG ==
  /\ Running("ms", "after_mg")
  /\ LET f == Top
     IN stack' = SetTop([f EXCEPT !.pc = "loop", !.last_sorted = ret,
                                  !.l_cnt = f.l_cnt + f.to_sort,
                                  !.step = f.step + 1])
  /\ UNCHANGED <<val, head_, last_, nxt, ret, ncomp, nsplice, memory, cfg>>

\* ------------------------------------------------------------- flat_list
\* iterators of flat_list are positions: before_begin() is size_t(-1),
\* end() is _max_size, an element is its index in data_
FLBeforeBegin == -1

\* (faulty variant of PosBitsFree) the first threshold is one bit too low:
\* capacities 256..511 get the one-byte type
PosBitsFreeLoose(free_bits) ==
  IF free_bits >= 55 THEN 8
  ELSE IF free_bits >= 48 THEN 16
  ELSE IF free_bits >= 32 THEN 32 ELSE 64

\* min_unsigned_t_for<_upper, _free_bits>: the width in bits of the type
\* selected by the chain of std::conditional_t
PosBitsFree(free_bits) ==
  IF free_bits >= 56 THEN 8
  ELSE IF free_bits >= 48 THEN 16
  ELSE IF free_bits >= 32 THEN 32 ELSE 64

\* min_unsigned_t_for<_upper>: _free_bits defaults to countl_zero(_upper)
PosBits(upper) == PosBitsFree(64 - BitLen(upper))

\* conversion of a size_t to pos_t (values of the model are below 2^31)
PosT(x, max) == IF PosBits(max) >= 32 THEN x ELSE x % Pow2(PosBits(max))

Put(f, k, v) == [x \in (DOMAIN f) \cup {k} |-> IF x = k THEN v ELSE f[x]]

\* flat_list(): only links_[0] is initialised; links_ is defined on the
\* entries that have been written
FLNew(max) ==
  [max |-> max, size_ |-> 0, links_ |-> Put(<<>>, 0, PosT(max, max)),
   data_ |-> <<>>]

FLBegin(m) == m.links_[0]
FLEnd(m) == m.max
\* iterator::operator++
FLNext(m, pos) == m.links_[pos + 1]
\* iterator::operator*
FLGet(m, pos) == m.data_[pos + 1]

\* (faulty variant of FLEmplaceAfter) the link of it is overwritten before
\* it is copied to the new element, which then points to itself
FLEmplaceAfterSelf(m, it, elem) ==
  LET l1 == Put(m.links_, it + 1, PosT(m.size_, m.max))
      l2 == Put(l1, m.size_ + 1, l1[it + 1])
  IN [m EXCEPT !.data_ = Append(@, elem), !.links_ = l2, !.size_ = @ + 1]

\* emplace_after(it, args...): the list afterwards; the iterator returned
\* is the old size_
FLEmplaceAfter(m, it, elem) ==
  LET it_link == m.links_[it + 1]
      l1 == Put(m.links_, m.size_ + 1, it_link)
      l2 == Put(l1, it + 1, PosT(m.size_, m.max))
  IN [m EXCEPT !.data_ = Append(@, elem), !.links_ = l2, !.size_ = @ + 1]

\* (faulty variant of FLClear) size_ is reset but no destructor is called
FLClearSizeOnly(m) == [m EXCEPT !.size_ = 0]

\* clear(): destroys the elements and resets size_, links_ is left as is
FLClear(m) == [m EXCEPT !.data_ = <<>>, !.size_ = 0]

FLSetData(m, pos, elem) == [m EXCEPT !.data_[pos + 1] = elem]

\* ---------------------------------------------------- bucket_sort_splice
BSFrame(left, end) ==
  [fn |-> "bs", pc |-> "start", left |-> left, end |-> end, lhs |-> NIL,
   it |-> NIL, last_buck |-> FLBeforeBegin, last_buck_dirty |-> FALSE]

Bucket(count, tail) == [first |-> count, second |-> tail]

\* (faulty variant of BSRun) ++size_to_bucket is missing from the loop: the
\* run is found but counted as one element
RECURSIVE BSRunMiscount(_, _, _, _, _)
BSRunMiscount(nx, it, it_last, end, n) ==
  LET it_next == nx[it_last] IN
  IF it_next # end /\ IsEq(it, it_next)
  THEN BSRunMiscount(nx, it, it_next, end, n)
  ELSE [it_last |-> it_last, it_next |-> it_next, size |-> n]

\* Lines 357-361: the run of elements equivalent to *it that starts at it
RECURSIVE BSRun(_, _, _, _, _)
BSRun(nx, it, it_last, end, n) ==
  LET it_next == nx[it_last] IN
  IF it_next # end /\ IsEq(it, it_next)
  THEN BSRun(nx, it, it_next, end, n + 1)
  ELSE [it_last |-> it_last, it_next |-> it_next, size |-> n]

\* (faulty variant of BSFindBucket) the test comp(*it, *buck_it_next->second)
\* is missing: the scan only stops at the bucket of *it or at last_buck
RECURSIVE BSFindBucketNoComp(_, _, _, _)
BSFindBucketNoComp(m, it, buck_it, last_buck) ==
  LET buck_it_next == FLNext(m, buck_it) IN
  IF buck_it_next = last_buck
  THEN [need_new_bucket |-> TRUE, buck_it |-> buck_it]
  ELSE IF IsEq(it, FLGet(m, buck_it_next).second)
  THEN [need_new_bucket |-> FALSE, buck_it |-> buck_it_next]
  ELSE BSFindBucketNoComp(m, it, buck_it_next, last_buck)

\* Lines 365-383: the bucket of *it among those before last_buck, or the
\* descriptor after which a new bucket goes
RECURSIVE BSFindBucket(_, _, _, _)
BSFindBucket(m, it, buck_it, last_buck) ==
  LET buck_it_next == FLNext(m, buck_it) IN
  IF buck_it_next = last_buck
  THEN [need_new_bucket |-> TRUE, buck_it |-> buck_it]
  ELSE IF IsEq(it, FLGet(m, buck_it_next).second)
  THEN [need_new_bucket |-> FALSE, buck_it |-> buck_it_next]
  ELSE IF Comp(it, FLGet(m, buck_it_next).second)
  THEN [need_new_bucket |-> TRUE, buck_it |-> buck_it]
  ELSE BSFindBucket(m, it, buck_it_next, last_buck)

\* Line 412: the value returned after the bucketing pass
BSResult(left) == <<0, After(left)>>

\* Lines 305-324: empty interval, or the first element gets its bucket
BSStart ==
  /\ Running("bs", "start")
  /\ LET f == Top
         lhs == After(f.left)
     IN IF lhs = f.end
        THEN /\ stack' = Pop
             /\ ret' = <<0, lhs>>
             /\ memory' = memory
        ELSE /\ memory' = FLEmplaceAfter(FLNew(cfg.maxb), FLBeforeBegin,
                                         Bucket(1, lhs))
             /\ stack' = SetTop([f EXCEPT !.pc = "loop", !.lhs = lhs,
                                          !.it = nxt[lhs], !.last_buck = 0])
             /\ ret' = ret
  /\ UNCHANGED <<val, head_, last_, nxt, ncomp, nsplice, cfg>>

\* Lines 326-332: *it belongs to the last bucket
BSExtendLast(f) ==
  LET b == FLGet(memory, f.last_buck) IN
  /\ memory' = FLSetData(memory, f.last_buck, Bucket(b.first + 1, f.it))
  /\ stack' = SetTop([f EXCEPT !.lhs = f.it, !.it = nxt[f.it]])
  /\ UNCHANGED <<head_, nxt, nsplice>>

\* (faulty variant of BSAfterLast) the test of can_add_buckets is missing:
\* a new bucket is always started
BSAfterLastAlways(f, can_add_buckets) ==
  /\ memory' = FLEmplaceAfter(memory, f.last_buck, Bucket(1, f.it))
  /\ stack' = SetTop([f EXCEPT !.last_buck = memory.size_,
                               !.lhs = f.it, !.it = nxt[f.it]])
  /\ UNCHANGED <<head_, nxt, nsplice>>

\* (faulty variant of BSAfterLast) last_buck_dirty = true is missing when
\* the element is left to the last bucket
BSAfterLastNotDirty(f, can_add_buckets) ==
  LET b == FLGet(memory, f.last_buck) IN
  /\ IF can_add_buckets
     THEN /\ memory' = FLEmplaceAfter(memory, f.last_buck, Bucket(1, f.it))
          /\ stack' = SetTop([f EXCEPT !.last_buck = memory.size_,
                                       !.lhs = f.it, !.it = nxt[f.it]])
     ELSE /\ memory' = FLSetData(memory, f.last_buck,
                                 Bucket(b.first + 1, b.second))
          /\ stack' = SetTop([f EXCEPT !.lhs = f.it, !.it = nxt[f.it]])
  /\ UNCHANGED <<head_, nxt, nsplice>>

\* Lines 341-353: *it is greater than the last bucket
BSAfterLast(f, can_add_buckets) ==
  LET b == FLGet(memory, f.last_buck) IN
  /\ IF can_add_buckets
     THEN /\ memory' = FLEmplaceAfter(memory, f.last_buck, Bucket(1, f.it))
          /\ stack' = SetTop([f EXCEPT !.last_buck = memory.size_,
                                       !.lhs = f.it, !.it = nxt[f.it]])
     ELSE /\ memory' = FLSetData(memory, f.last_buck,
                                 Bucket(b.first + 1, b.second))
          /\ stack' = SetTop([f EXCEPT !.last_buck_dirty = TRUE,
                                       !.lhs = f.it, !.it = nxt[f.it]])
  /\ UNCHANGED <<head_, nxt, nsplice>>

\* Lines 355-410: find the bucket of the run starting at it and splice
BSGeneral(f, can_add_buckets) ==
  LET run == BSRun(nxt, f.it, f.it, f.end, 1)
      fb == BSFindBucket(memory, f.it, FLBeforeBegin, f.last_buck)
      g == [f EXCEPT !.it = run.it_next]
  IN
  IF fb.need_new_bucket /\ ~can_add_buckets
  THEN LET b == FLGet(memory, f.last_buck) IN
       /\ memory' = FLSetData(memory, f.last_buck,
                              Bucket(b.first + run.size, b.second))
       /\ stack' = SetTop([g EXCEPT !.last_buck_dirty = TRUE,
                                    !.lhs = run.it_last])
       /\ UNCHANGED <<head_, nxt, nsplice>>
  ELSE IF fb.need_new_bucket /\ fb.buck_it = FLBeforeBegin
  THEN LET r == CospliceIn(head_, nxt, f.left, f.lhs, run.it_last) IN
       /\ memory' = FLEmplaceAfter(memory, fb.buck_it,
                                   Bucket(run.size, run.it_last))
       /\ head_' = r.h
       /\ nxt' = r.nx
       /\ nsplice' = nsplice + 1
       /\ stack' = SetTop(g)
  ELSE
    LET m1 == IF fb.need_new_bucket
              THEN FLEmplaceAfter(memory, fb.buck_it,
                                  Bucket(0, FLGet(memory, fb.buck_it).second))
              ELSE memory
        buck_it == IF fb.need_new_bucket THEN memory.size_ ELSE fb.buck_it
        b == FLGet(m1, buck_it)
        r == CospliceIn(head_, nxt, b.second, f.lhs, run.it_last)
    IN /\ head_' = r.h
       /\ nxt' = r.nx
       /\ nsplice' = nsplice + 1
       /\ memory' = FLSetData(m1, buck_it,
                              Bucket(b.first + run.size, run.it_last))
       /\ stack' = SetTop(g)

\* One iteration of the loop of bucket_sort_splice (lines 324-410)
BSLoop ==
  /\ Running("bs", "loop")
  /\ Top.it # Top.end
  /\ LET f == Top
         can_add_buckets == memory.size_ < cfg.maxb
     IN IF IsEq(f.it, FLGet(memory, f.last_buck).second)
        THEN BSExtendLast(f)
        ELSE IF Comp(FLGet(memory, f.last_buck).second, f.it)
        THEN BSAfterLast(f, can_add_buckets)
        ELSE BSGeneral(f, can_add_buckets)
  /\ UNCHANGED <<val, last_, ret, ncomp, cfg>>

\* Lines 324 and 412: the loop ends, the function returns and memory is
\* destroyed (~flat_list calls clear())
BSReturn ==
  /\ Running("bs", "loop")
  /\ Top.it = Top.end
  /\ stack' = Pop
  /\ ret' = BSResult(Top.left)
  /\ memory' = FLClear(memory)
  /\ UNCHANGED <<val, head_, last_, nxt, ncomp, nsplice, cfg>>

\* ------------------------------------------------------------ setup
NoMemory == [size_ |-> 0, links_ |-> <<>>, data_ |-> <<>>]

\* One list of n nodes built as the tests build it
ListOf(n, vs) ==
  /\ val \in [1..n -> 0..(vs - 1)]
  /\ head_ = [l \in {1} |-> IF n = 0 THEN NIL ELSE 1]
  /\ last_ = [l \in {1} |-> IF n = 0 THEN NIL ELSE n]
  /\ nxt = BuildNext(1, n)
  /\ ncomp = 0
  /\ nsplice = 0

\* the list, no call having returned
OneList(n, vs) == ListOf(n, vs) /\ ret = NoRet

\* left limits of an n-element list: FS (position 0) or node p (position p)
LeftLimit(p) == IF p = 0 THEN FS ELSE p

\* ------------------------------------------- insertion sort specification
InitIS ==
  \E n \in 0..MaxLen :
    /\ OneList(n, MaxVal)
    /\ memory = NoMemory
    /\ \E p \in 0..n : \E c \in 0..(n - p) :
         /\ cfg = [alg |-> "is", n |-> n, p |-> p, count |-> c,
                   cshift |-> 0, eshift |-> 0]
         /\ stack = <<ISFrame(LeftLimit(p), c)>>

NextIS == ISStart \/ ISLoop

SpecIS == InitIS /\ [][NextIS]_vars

\* ---------------------------------------------------- merge specification
\* nodes lo..hi are non-decreasing under comp in the initial list
SortedPart(lo, hi) == \A i \in lo..(hi - 1) : ~Comp(i + 1, i)

\* (left, mid] and (mid, right] are sorted; left != mid, mid may equal right
InitMG ==
  \E n \in 1..MaxLen :
    /\ OneList(n, MaxVal)
    /\ memory = NoMemory
    /\ \E p \in 0..(n - 1) : \E m \in (p + 1)..n : \E r \in m..n :
         /\ cfg = [alg |-> "mg", n |-> n, p |-> p, count |-> r - p, mid |-> m,
                   cshift |-> 0, eshift |-> 0]
         /\ SortedPart(p + 1, m)
         /\ SortedPart(m + 1, r)
         /\ stack = <<MGFrame(LeftLimit(p), m, r)>>

NextMG == MGStart \/ MGLoop

SpecMG == InitMG /\ [][NextMG]_vars

\* ----------------------------------------------- merge sort specification
InitMS ==
  \E n \in 0..MaxLenMS :
    /\ OneList(n, MaxValMS)
    /\ memory = NoMemory
    /\ \E p \in 0..n : \E c \in 0..(n - p) :
         /\ p <= 1
         /\ n - p - c <= 1
         /\ cfg = [alg |-> "ms", n |-> n, p |-> p, count |-> c,
                   cshift |-> 0, eshift |-> 0]
         /\ stack = <<MSFrame(LeftLimit(p), c)>>

NextMS ==
  \/ MSStart \/ MSAfterIS \/ MSLoop \/ MSAfterMS \/ MSAfterMG
  \/ ISStart \/ ISLoop
  \/ MGStart \/ MGLoop

SpecMS == InitMS /\ [][NextMS]_vars

\* -------------------------------- insertion sort or merge sort, either one
InitSort == InitIS \/ InitMS

SpecSort == InitSort /\ [][NextMS]_vars

\* ---------------------------------------------- bucket sort specification
\* The pairs (shift of comp, shift of the relation): the relation is
\* consistent with comp when eshift >= cshift, and only weakly consistent
\* (classes finer than the order's equivalence) when eshift < cshift
ShiftPairs == {<<0, k>> : k \in 0..MaxShift} \cup {<<1, 0>>}

\* The interval is (left, right): left at position p, right at position e
\* (position n+1 is end()), with at most one element skipped on each side
InitBS ==
  \E n \in 0..MaxLenBS :
    /\ ListOf(n, MaxValBS)
    /\ ret = <<NoRet, NoRet>>  \* the pair {count, iterator} not yet returned
    /\ memory = NoMemory
    /\ \E p \in 0..n : \E e \in (p + 1)..(n + 1) :
       \E sh \in ShiftPairs : \E mb \in 1..MaxBuckets :
         /\ p <= 1
         /\ n + 1 - e <= 1
         /\ cfg = [alg |-> "bs", n |-> n, p |-> p, count |-> e - 1 - p,
                   cshift |-> sh[1], eshift |-> sh[2], maxb |-> mb]
         /\ stack = <<BSFrame(LeftLimit(p), IF e = n + 1 THEN NIL ELSE e)>>

NextBS == BSStart \/ BSLoop \/ BSReturn

SpecBS == InitBS /\ [][NextBS]_vars

\* ------------------------------------------------ cosplice specification
\* Two lists of n elements each, as the splicing tests build them: list 1
\* holds nodes 1..n and list 2 holds nodes n+1..2n.  The destination is
\* list 1, the source is list 1 (same range) or list 2.
CSFrame ==
  [fn |-> "cs", pc |-> "start", one |-> FALSE, pi |-> 0, li |-> 0, ri |-> 0,
   pos |-> FS, lt |-> FS, rt |-> NIL]

InitCS ==
  \E n \in 1..MaxLenCS :
    /\ val = [i \in 1..(2 * n) |-> i]
    /\ head_ = [l \in {1, 2} |-> IF l = 1 THEN 1 ELSE n + 1]
    /\ last_ = [l \in {1, 2} |-> IF l = 1 THEN n ELSE 2 * n]
    /\ nxt = [i \in 1..(2 * n) |-> IF i = n \/ i = 2 * n THEN NIL ELSE i + 1]
    /\ ret = NoRet
    /\ ncomp = 0
    /\ nsplice = 0
    /\ memory = NoMemory
    /\ \E kind \in {"cosplice", "splice", "splice_after"} : \E src \in {1, 2} :
         cfg = [alg |-> "cs", n |-> n, kind |-> kind, src |-> src,
                cshift |-> 0, eshift |-> 0]
    /\ stack = <<CSFrame>>

\* the left limit at position i of list l in the initial lists
CSLimit(l, i) == IF i = 0 THEN FS ELSE (l - 1) * cfg.n + i

\* pos at position pi of list 1 and (lt, rt] = positions li+1..ri of the
\* source meet the preconditions of cosplice
CSValid(pi, li, ri) ==
  /\ li < ri
  /\ cfg.src = 1 => ~(li <= pi /\ pi <= ri)

\* cosplice(dst, pos, src, lt, rt) on a corange
CSRange ==
  /\ Running("cs", "start")
  /\ \E pi \in 0..cfg.n : \E li \in 0..(cfg.n - 1) : \E ri \in 1..cfg.n :
       /\ CSValid(pi, li, ri)
       /\ LET pos == CSLimit(1, pi)
              lt == CSLimit(cfg.src, li)
              rt == CSLimit(cfg.src, ri)
              r == Cosplice(cfg.kind, head_, nxt, 1, pos, cfg.src, lt, rt)
          IN /\ head_' = r.h
             /\ nxt' = r.nx
             /\ stack' = SetTop([Top EXCEPT !.pc = "moved", !.pi = pi,
                                   !.li = li, !.ri = ri, !.pos = pos,
                                   !.lt = lt, !.rt = rt])
  /\ nsplice' = nsplice + 1
  /\ UNCHANGED <<val, last_, ret, ncomp, memory, cfg>>

\* cosplice(dst, pos, src, it): the element following it
CSSingle ==
  /\ Running("cs", "start")
  /\ \E pi \in 0..cfg.n : \E li \in 0..(cfg.n - 1) :
       /\ CSValid(pi, li, li + 1)
       /\ LET pos == CSLimit(1, pi)
              it == CSLimit(cfg.src, li)
              r == CospliceSingle(cfg.kind, head_, nxt, 1, pos, cfg.src, it)
          IN /\ head_' = r.h
             /\ nxt' = r.nx
             /\ stack' = SetTop([Top EXCEPT !.pc = "moved", !.one = TRUE,
                                   !.pi = pi,
                                   !.li = li, !.ri = li + 1, !.pos = pos,
                                   !.lt = it,
                                   !.rt = CSLimit(cfg.src, li + 1)])
  /\ nsplice' = nsplice + 1
  /\ UNCHANGED <<val, last_, ret, ncomp, memory, cfg>>

\* the way back: cosplice(src, lt, dst, pos, rt)
CSBack ==
  /\ Running("cs", "moved")
  /\ LET f == Top
         r == Cosplice(cfg.kind, head_, nxt, cfg.src, f.lt, 1, f.pos, f.rt)
     IN /\ head_' = r.h
        /\ nxt' = r.nx
        /\ stack' = SetTop([f EXCEPT !.pc = "back"])
  /\ nsplice' = nsplice + 1
  /\ UNCHANGED <<val, last_, ret, ncomp, memory, cfg>>

NextCS == CSRange \/ CSSingle \/ CSBack

SpecCS == InitCS /\ [][NextCS]_vars

\* ------------------------------------------------------- claim vocabulary
Done == stack = <<>>

Key(n) == Shr(val[n], cfg.cshift)

\* s holds exactly the nodes lo..hi in the order of a stable sort under comp
\* (node identities are original positions)
StableSorted(s, lo, hi) ==
  /\ Len(s) = hi - lo + 1
  /\ SeqSet(s) = lo..hi
  /\ \A i \in 1..(Len(s) - 1) :
       \/ Key(s[i]) < Key(s[i + 1])
       \/ Key(s[i]) = Key(s[i + 1]) /\ s[i] < s[i + 1]

\* the corange (left, left+count] of the current list
Corange == SubSeq(ListSeq, cfg.p + 1, cfg.p + cfg.count)

\* C1: when insertion_sort_splice(range, left, count, comp) has returned,
\* the corange (left, left+count] holds exactly the elements it held before
\* the call, sorted under comp with equal elements in their original order.
C1_InsertionSortStable ==
  (Done /\ cfg.alg = "is") => StableSorted(Corange, cfg.p + 1, cfg.p + cfg.count)

\* an insertion sort of at least three elements that relocated has returned
C1_Witness ==
  Done /\ cfg.alg = "is" /\ cfg.count >= 3 /\ nsplice >= 2 /\ cfg.p >= 1

\* C2: when merge_sort_splice(range, left, count, comp) has returned, the
\* corange (left, left+count] holds exactly the elements it held before the
\* call, sorted under comp with equal elements in their original order.
C2_MergeSortStable ==
  (Done /\ cfg.alg = "ms") => StableSorted(Corange, cfg.p + 1, cfg.p + cfg.count)

\* a merge sort of at least seven elements that recursed and relocated
C2_Witness ==
  Done /\ cfg.alg = "ms" /\ cfg.count >= 7 /\ nsplice >= 3

\* C3: when coinplace_merge_splice has returned on sorted parts (left, mid]
\* and (mid, right], the elements of (left, right] form the stable merge of
\* the two parts: sorted, equal elements of the left part first, each part
\* in its internal order.
C3_MergeIsStableMerge ==
  (Done /\ cfg.alg = "mg") => StableSorted(Corange, cfg.p + 1, cfg.p + cfg.count)

\* a merge of two non-trivial parts that needed at least two relocations
C3_Witness ==
  /\ Done /\ cfg.alg = "mg" /\ nsplice >= 2
  /\ cfg.mid - cfg.p >= 2 /\ cfg.p + cfg.count - cfg.mid >= 2

\* the boundary cases of C3: mid == right with a one-element left part
C3_WitnessBoundary ==
  Done /\ cfg.alg = "mg" /\ cfg.count = 1 /\ cfg.mid = cfg.p + 1

\* the list as it was built: the nodes 1..n in order
Original == [i \in 1..cfg.n |-> i]

\* C4: the first component of the result of bucket_sort_splice is the
\* number of elements of the open interval (left, right).
C4_ReturnsSize ==
  (Done /\ cfg.alg = "bs") => ret[1] = cfg.count

\* C5: with a relation consistent with comp, after bucket_sort_splice the
\* interval (left, right) holds its original elements in the order of a
\* stable sort under comp, for any number of classes against _max_buckets.
C5_BucketSortStable ==
  (Done /\ cfg.alg = "bs" /\ cfg.eshift >= cfg.cshift)
    => StableSorted(Corange, cfg.p + 1, cfg.p + cfg.count)

\* C6: the second component of the result of bucket_sort_splice is the
\* last element of the interval after sorting; for an empty interval the
\* result is (0, after(range, left)) and the sequence is unchanged.
C6_ReturnsLast ==
  (Done /\ cfg.alg = "bs")
    => IF cfg.count = 0
       THEN ret = <<0, After(LeftLimit(cfg.p))>> /\ ListSeq = Original
       ELSE ret[2] = ListSeq[cfg.p + cfg.count]

\* C7: with a relation only weakly consistent with comp, after
\* bucket_sort_splice over the whole range no element is immediately
\* followed by one that compares less than it.
C7_WeakNonDecreasing ==
  (Done /\ cfg.alg = "bs" /\ cfg.eshift < cfg.cshift
        /\ cfg.p = 0 /\ cfg.count = cfg.n)
    => \A i \in 1..(Len(ListSeq) - 1) : ~Comp(ListSeq[i + 1], ListSeq[i])

\* the reference: splice_after on sequences.  a is the destination, b the
\* source, the elements li+1..ri of b go after the element pi of a
RefMoved(b, li, ri) == SubSeq(b, li + 1, ri)
RefRest(b, li, ri) == SubSeq(b, 1, li) \o SubSeq(b, ri + 1, Len(b))
RefInsert(a, pi, m) == SubSeq(a, 1, pi) \o m \o SubSeq(a, pi + 1, Len(a))
RefSameList(a, pi, li, ri) ==
  RefInsert(RefRest(a, li, ri), IF pi < li THEN pi ELSE pi - (ri - li),
            RefMoved(a, li, ri))

CSInit1 == [i \in 1..cfg.n |-> i]
CSInit2 == [i \in 1..cfg.n |-> cfg.n + i]

\* C8: after cosplice(dst, pos, src, lt, rt), or the overload for one
\* element, both sequences are those the reference splice_after produces:
\* the elements of (lt, rt] follow pos in their order, all other elements
\* keep their relative order.
C8_CospliceRefinesSpliceAfter ==
  Running("cs", "moved") =>
    LET f == Top IN
    IF cfg.src = 1
    THEN ListSeqOf(head_, nxt, 1) = RefSameList(CSInit1, f.pi, f.li, f.ri)
    ELSE /\ ListSeqOf(head_, nxt, 1)
              = RefInsert(CSInit1, f.pi, RefMoved(CSInit2, f.li, f.ri))
         /\ ListSeqOf(head_, nxt, 2) = RefRest(CSInit2, f.li, f.ri)

\* a corange of two elements moved forward inside one forward_list
C8_Witness ==
  /\ Running("cs", "moved") /\ cfg.src = 1 /\ cfg.kind = "splice_after"
  /\ Top.ri - Top.li = 2 /\ Top.pi > Top.ri /\ Top.li > 0

\* the overload for one element, between two lists, from the front sentinel
C8_WitnessSingle ==
  /\ Running("cs", "moved") /\ Top.one /\ cfg.src = 2 /\ Top.li = 0
  /\ cfg.kind = "cosplice"

\* C9: cosplice(dst, pos, src, lt, rt) followed by
\* cosplice(src, lt, dst, pos, rt) restores both sequences.
C9_CospliceRoundTrip ==
  Running("cs", "back") =>
    /\ ListSeqOf(head_, nxt, 1) = CSInit1
    /\ ListSeqOf(head_, nxt, 2) = CSInit2

\* a round trip of three elements between two linked lists
C9_Witness ==
  /\ Running("cs", "back") /\ cfg.src = 2 /\ cfg.kind = "cosplice"
  /\ Top.ri - Top.li = 3 /\ Top.pi > 0

\* a round trip inside one list
C9_WitnessSame ==
  Running("cs", "back") /\ cfg.src = 1 /\ Top.ri - Top.li = 2 /\ Top.pi = 0

\* C10: insertion_sort_splice and merge_sort_splice return the last element
\* of the sorted corange, whose successor is the element that followed the
\* corange before the call; for count = 0 they return after(range, left),
\* which is end(range) for an empty range; for count <= 1 nothing is
\* relocated.
C10_SortReturnsLast ==
  (Done /\ cfg.alg \in {"is", "ms"}) =>
    /\ IF cfg.count = 0
       THEN /\ ret = After(LeftLimit(cfg.p))
            /\ cfg.n = 0 => ret = NIL
       ELSE /\ ret = ListSeq[cfg.p + cfg.count]
            /\ nxt[ret] = IF cfg.p + cfg.count = cfg.n THEN NIL
                          ELSE cfg.p + cfg.count + 1
    /\ cfg.count <= 1 => nsplice = 0 /\ ListSeq = Original

\* a merge sort whose last merge ended with the right-hand part exhausted:
\* the element returned is not the one that was last before the call
C10_Witness ==
  /\ Done /\ cfg.alg = "ms" /\ cfg.count >= 4
  /\ ret # cfg.p + cfg.count /\ cfg.n > cfg.p + cfg.count

\* the empty corange of an empty range
C10_WitnessEmpty ==
  Done /\ cfg.alg = "is" /\ cfg.n = 0 /\ ret = NIL

\* C11: coinplace_merge_splice returns the last element of the merged
\* corange: (left, result] holds exactly the elements of the original
\* (left, right], and the successor of result is the element, or end, that
\* followed right before the call.
C11_MergeReturnsLast ==
  (Done /\ cfg.alg = "mg") =>
    /\ ret \in Nodes
    /\ \E k \in 1..Len(ListSeq) :
         /\ ListSeq[k] = ret
         /\ SeqSet(SubSeq(ListSeq, cfg.p + 1, k))
              = (cfg.p + 1)..(cfg.p + cfg.count)
    /\ nxt[ret] = IF cfg.p + cfg.count = cfg.n THEN NIL
                  ELSE cfg.p + cfg.count + 1

\* a merge that ended with the right-hand part exhausted inside a longer
\* list: the element returned is middle, not the original right
C11_Witness ==
  /\ Done /\ cfg.alg = "mg" /\ nsplice >= 1 /\ ret = cfg.mid
  /\ cfg.mid # cfg.p + cfg.count /\ cfg.p + cfg.count < cfg.n /\ cfg.p >= 1

\* --------------------------- the three comparison algorithms, any of them
InitSortMerge == InitIS \/ InitMS \/ InitMG

SpecSortMerge == InitSortMerge /\ [][NextMS]_vars

\* C12: insertion_sort_splice, merge_sort_splice and coinplace_merge_splice
\* only reorder the corange: at every point of a call the sequence has its
\* original length, and every element up to and including left and every
\* element after the corange is at its original position.
C12_FrameOutsideCorange ==
  cfg.alg \in {"is", "ms", "mg"} =>
    /\ Len(ListSeq) = cfg.n
    /\ \A i \in 1..cfg.n :
         (i <= cfg.p \/ i > cfg.p + cfg.count) => ListSeq[i] = i

\* a call that relocated elements of a corange with elements on both sides
C12_Witness ==
  /\ Done /\ cfg.alg \in {"is", "ms", "mg"} /\ nsplice >= 2
  /\ cfg.p >= 1 /\ cfg.p + cfg.count < cfg.n
  /\ Corange # SubSeq(Original, cfg.p + 1, cfg.p + cfg.count)

\* ------------------------------------------------- a predicate that throws
\* The caller's handler after an exception left the outermost call, and the
\* state after std::terminate (an exception met a noexcept function)
CaughtFrame == [fn |-> "caller", pc |-> "caught"]
Caught == stack = <<CaughtFrame>>
Terminated == stack # <<>> /\ Top.pc = "terminate"

\* The running call is about to call comp or is_eq, before any relocation
\* of the current iteration
PredicateDue ==
  \/ Running("is", "start") /\ Top.size >= 2
  \/ Running("is", "loop") /\ Top.size > 0
  \/ Running("mg", "start") /\ Top.middle # Top.last
  \/ Running("mg", "loop")
  \/ Running("bs", "loop") /\ Top.it # Top.end

\* project_predicate: without a projection the predicate itself is called
\* and its exception unwinds every frame, destroying the flat_list of
\* bucket_sort_splice on the way; with a projection the predicate is called
\* inside a lambda declared noexcept, and an exception that reaches its
\* boundary calls std::terminate without unwinding
ProjectPredicateThrow(projected) ==
  IF projected
  THEN /\ stack' = SetTop([Top EXCEPT !.pc = "terminate"])
       /\ memory' = memory
  ELSE /\ stack' = <<CaughtFrame>>
       /\ memory' = IF cfg.alg = "bs" THEN FLClear(memory) ELSE memory

\* comp or is_eq throws at one of the calls made before the relocation of
\* the current iteration.  Whether a projection was supplied is an argument
\* of the call; it is read only here, and at most once in a behaviour
PredThrows ==
  /\ PredicateDue
  /\ \E projected \in BOOLEAN : ProjectPredicateThrow(projected)
  /\ UNCHANGED <<val, head_, last_, nxt, ret, ncomp, nsplice, cfg>>

\* comp throws at the call that follows the relocation in
\* coinplace_merge_splice (lines 173 and 195: comp(*rhs_next, *middle))
MGPredThrowsLate ==
  /\ \/ /\ Running("mg", "start")
        /\ Top.middle # Top.last
        /\ Comp(nxt[Top.middle], Top.middle)
        /\ Comp(nxt[Top.middle], After(Top.left))
        /\ LET f == Top
               lhs == After(f.left)
               end == nxt[f.last]
               run == MGRun(nxt, nxt[f.middle], lhs, end, 0)
               r == CospliceIn(head_, nxt, f.left, f.middle, run.rhs)
           IN /\ run.rhs_next # end
              /\ lhs # f.middle
              /\ head_' = r.h
              /\ nxt' = r.nx
     \/ /\ Running("mg", "loop")
        /\ LET f == Top
               fl == MGFindLeft(nxt, f.rhs, f.lhs, 0)
               run == MGRun(nxt, f.rhs, fl.lhs_next, f.end, 0)
               r == CospliceIn(head_, nxt, fl.lhs, f.middle, run.rhs)
           IN /\ run.rhs_next # f.end
              /\ fl.lhs_next # f.middle
              /\ head_' = r.h
              /\ nxt' = r.nx
  /\ nsplice' = nsplice + 1
  /\ \E projected \in BOOLEAN : ProjectPredicateThrow(projected)
  /\ UNCHANGED <<val, last_, ret, ncomp, cfg>>

\* any of the four algorithms, with a predicate that may throw
InitThrow == InitIS \/ InitMS \/ InitMG \/ InitBS

NextThrow ==
  \/ NextMS
  \/ BSStart \/ BSLoop \/ BSReturn
  \/ PredThrows
  \/ MGPredThrowsLate

SpecThrow == InitThrow /\ [][NextThrow]_vars

\* C13: an exception thrown by comp or is_eq during one of the four
\* algorithms reaches the caller, with or without a projection.
C13_PredicateExceptionPropagates ==
  (Caught \/ Terminated) => Caught

\* C14: every bucket descriptor constructed during bucket_sort_splice is
\* destroyed when the call is left, by a return or by an exception: no
\* descriptor is alive then.
C14_DescriptorsDestroyed ==
  (cfg.alg = "bs" /\ (Done \/ Caught)) =>
    /\ memory.data_ = <<>>
    /\ memory.size_ = 0

\* comp or is_eq threw after two descriptors had been constructed (their
\* links are written) and the call was left
C14_Witness ==
  /\ cfg.alg = "bs" /\ Caught
  /\ Cardinality(DOMAIN memory.links_) >= 3

\* a normal return after three descriptors had been constructed
C14_WitnessReturn ==
  /\ cfg.alg = "bs" /\ Done
  /\ Cardinality(DOMAIN memory.links_) >= 4

\* C15: at every point of the four algorithms, whenever a predicate may
\* throw included, the sequence is a well-formed list holding every
\* original element exactly once: following next from the head meets all
\* the n elements and then end.
C15_AlwaysPermutation ==
  /\ Len(ListSeq) = cfg.n
  /\ SeqSet(ListSeq) = 1..cfg.n
  /\ \A x \in Nodes : nxt[x] \in Nodes \cup {NIL}

\* an exception left bucket sort between two relocations
C15_Witness ==
  /\ Caught /\ cfg.alg = "bs" /\ nsplice >= 1 /\ ListSeq # Original
  /\ \E i \in 1..(cfg.n - 1) : Comp(ListSeq[i + 1], ListSeq[i])

\* an exception left merge sort inside a merge, after a relocation
C15_WitnessMerge ==
  /\ Caught /\ cfg.alg = "ms" /\ nsplice >= 2
  /\ \E i \in 1..(cfg.n - 1) : Comp(ListSeq[i + 1], ListSeq[i])

\* ------------------------------------------------ flat_list on its own
\* A flat_list<size_t, N> driven as in TEST(FlatListTests, base), next to a
\* std::forward_list given the same calls.  Elements are named by their
\* index in data_; the reference holds these indices in list order.
FLFrame ==
  [fn |-> "fl", pc |-> "fresh", ref |-> <<>>, calls |-> 0, total |-> 0,
   clears |-> 0]

InitFL ==
  \E n \in 1..MaxCap :
    /\ val = <<>>
    /\ head_ = <<>>
    /\ last_ = <<>>
    /\ nxt = <<>>
    /\ ret = NoRet
    /\ ncomp = 0
    /\ nsplice = 0
    /\ memory = FLNew(n)
    /\ cfg = [alg |-> "fl", n |-> n, cshift |-> 0, eshift |-> 0]
    /\ stack = <<FLFrame>>

\* std::forward_list::emplace_after(it): the new element x follows the
\* element it, or comes first when it is before_begin()
FwdEmplaceAfter(s, it, x) ==
  IF it = FLBeforeBegin THEN <<x>> \o s
  ELSE LET k == CHOOSE i \in 1..Len(s) : s[i] = it
       IN SubSeq(s, 1, k) \o <<x>> \o SubSeq(s, k + 1, Len(s))

\* the positions met from pos by operator++ until end(), at most fuel
RECURSIVE FLWalk(_, _, _)
FLWalk(m, pos, fuel) ==
  IF pos = FLEnd(m) \/ fuel = 0 THEN <<>>
  ELSE <<pos>> \o FLWalk(m, FLNext(m, pos), fuel - 1)

\* for (auto x : list): the traversal begin()..end()
FLTraverse(m) == FLWalk(m, FLBegin(m), m.max + 1)

\* ranges::next(pos, k)
RECURSIVE FLAdvance(_, _, _)
FLAdvance(m, pos, k) ==
  IF k = 0 THEN pos ELSE FLAdvance(m, FLNext(m, pos), k - 1)

\* list.emplace_after(it, v) with it = before_begin() or an element, on a
\* list that is not full; the value constructed is the number of the call
FLEmplace ==
  /\ Running("fl", Top.pc)
  /\ memory.size_ < memory.max
  /\ \E it \in {FLBeforeBegin} \cup (0..(memory.size_ - 1)) :
       LET f == Top IN
       /\ memory' = FLEmplaceAfter(memory, it, f.total + 1)
       /\ ret' = memory.size_
       /\ stack' = SetTop([f EXCEPT
                             !.pc = IF f.pc = "fresh" THEN "fresh" ELSE "reused",
                             !.ref = FwdEmplaceAfter(f.ref, it, memory.size_),
                             !.calls = f.calls + 1,
                             !.total = f.total + 1])
  /\ UNCHANGED <<val, head_, last_, nxt, ncomp, nsplice, cfg>>

\* list.clear(), the reference is cleared too
FLClearCall ==
  /\ Running("fl", Top.pc)
  /\ Top.clears < MaxClears
  /\ memory' = FLClear(memory)
  /\ stack' = SetTop([Top EXCEPT !.pc = "cleared", !.ref = <<>>,
                                 !.calls = 0, !.clears = @ + 1])
  /\ UNCHANGED <<val, head_, last_, nxt, ret, ncomp, nsplice, cfg>>

NextFL == FLEmplace \/ FLClearCall

SpecFL == InitFL /\ [][NextFL]_vars

\* C16: after clear() the list is empty and reusable: size() is 0 and
\* begin() equals end(), and the emplace_after calls made afterwards give
\* the traversal they give on a freshly constructed list.
C16_ClearLeavesReusable ==
  (cfg.alg = "fl" /\ Top.pc \in {"cleared", "reused"}) =>
    /\ memory.size_ = Top.calls
    /\ Top.pc = "cleared" => FLBegin(memory) = FLEnd(memory)
    /\ FLTraverse(memory) = Top.ref

\* C17: on a flat_list of capacity N that was never cleared, after at most
\* N emplace_after calls at before_begin() or at an element, the traversal
\* is that of a std::forward_list after the same calls, size() is the number
\* of calls, next(before_begin()) is begin(), begin() advanced size() times
\* is end(), and the iterator returned designates the element constructed.
C17_FlatListIsForwardList ==
  (cfg.alg = "fl" /\ Top.pc = "fresh") =>
    /\ FLTraverse(memory) = Top.ref
    /\ memory.size_ = Top.calls
    /\ FLNext(memory, FLBeforeBegin) = FLBegin(memory)
    /\ FLAdvance(memory, FLBegin(memory), memory.size_) = FLEnd(memory)
    /\ Top.calls > 0 =>
         /\ ret = Top.calls - 1
         /\ FLGet(memory, ret) = Top.total

\* a full list of three elements or more whose order is neither the order
\* of construction nor its reverse
C17_Witness ==
  /\ cfg.alg = "fl" /\ Top.pc = "fresh"
  /\ memory.size_ = memory.max /\ memory.size_ >= 3
  /\ \E i, j \in 1..(Len(Top.ref) - 1) :
       Top.ref[i] < Top.ref[i + 1] /\ Top.ref[j] > Top.ref[j + 1]

\* ------------------------------------------------------ pos_t on its own
\* flat_list<T, N>::pos_t for a capacity N, and the link values stored in
\* it.  N is an unsigned 64-bit template argument: a capacity below 2^31 is
\* given by its value, a wider one by its number of binary digits len
\* (countl_zero(N) = 64 - len), which is all that min_unsigned_t_for reads.
PosFrame(wide, n, len) ==
  [fn |-> "pos", pc |-> "start", wide |-> wide, n |-> n, len |-> len,
   bits |-> 0, v |-> 0, stored |-> 0]

PosCapacities ==
  (0..MaxCapPos)
    \cup {Pow2(k) + d : k \in 1..MaxPosBit, d \in {0 - 1, 0, 1}}

InitPos ==
  /\ val = <<>>
  /\ head_ = <<>>
  /\ last_ = <<>>
  /\ nxt = <<>>
  /\ ret = NoRet
  /\ ncomp = 0
  /\ nsplice = 0
  /\ memory = NoMemory
  /\ cfg = [alg |-> "pos", n |-> 0, cshift |-> 0, eshift |-> 0]
  /\ \/ \E n \in PosCapacities : stack = <<PosFrame(FALSE, n, BitLen(n))>>
     \/ \E len \in (MaxPosBit + 2)..64 : stack = <<PosFrame(TRUE, 0, len)>>

\* using pos_t = min_unsigned_t_for<_max_size>
PosSelect ==
  /\ Running("pos", "start")
  /\ stack' = SetTop([Top EXCEPT !.pc = "typed",
                                 !.bits = PosBitsFree(64 - Top.len)])
  /\ UNCHANGED <<val, head_, last_, nxt, ret, ncomp, nsplice, memory, cfg>>

\* links_[i] = pos_t(v) for a link value: an element index 0..N-1 (lines
\* 133-134) or the end marker N (line 70)
PosStore ==
  /\ Running("pos", "typed")
  /\ ~Top.wide
  /\ \E v \in {0, Top.n - 1, Top.n} :
       /\ v >= 0
       /\ stack' = SetTop([Top EXCEPT !.pc = "stored", !.v = v,
                                      !.stored = PosT(v, Top.n)])
  /\ UNCHANGED <<val, head_, last_, nxt, ret, ncomp, nsplice, memory, cfg>>

NextPos == PosSelect \/ PosStore

SpecPos == InitPos /\ [][NextPos]_vars

\* the unsigned type of w bits holds a value of len binary digits
HoldsLen(w, len) == len <= w

\* C18: pos_t is the smallest of the 8-, 16-, 32- and 64-bit unsigned types
\* whose range includes N: it holds N, no narrower type does, every link
\* value stored (0..N-1 and the end marker N) is stored without truncation,
\* and for N = 100 it is 8 bits wide.
C18_PosTSmallestType ==
  /\ Running("pos", "typed") =>
       /\ Top.bits \in {8, 16, 32, 64}
       /\ HoldsLen(Top.bits, Top.len)
       /\ \A w \in {8, 16, 32, 64} : w < Top.bits => ~HoldsLen(w, Top.len)
       /\ (~Top.wide /\ Top.n = 100) => Top.bits = 8
       /\ (~Top.wide /\ Top.len = 0) => Top.n = 0
       /\ (~Top.wide /\ Top.len > 0) =>
            /\ Pow2(Top.len - 1) <= Top.n
            /\ Top.n \div 2 < Pow2(Top.len - 1)
  /\ Running("pos", "stored") => Top.stored = Top.v

\* the end marker of a list of capacity 255 is stored in one byte
C18_Witness ==
  /\ Running("pos", "stored") /\ Top.n = 255 /\ Top.v = 255 /\ Top.bits = 8

\* capacity 100 gets the one-byte type, capacity 65536 the 32-bit type
C18_WitnessWidths ==
  /\ Running("pos", "typed")
  /\ \/ Top.n = 100 /\ Top.bits = 8
     \/ Top.n = 65536 /\ Top.bits = 32

\* ------------------------------------- the bucketing pass of bucket sort
\* the class of an element under the relation
EKey(n) == Shr(val[n], cfg.eshift)

\* the number of equivalence classes of the interval (left, right)
NumClasses ==
  Cardinality({EKey(i) : i \in (cfg.p + 1)..(cfg.p + cfg.count)})

\* the loop of bucket_sort_splice has ended
PassOver == Done \/ (Running("bs", "loop") /\ Top.it = Top.end)

\* C19: with at most _max_buckets classes and a relation consistent with
\* comp, after the bucketing pass each class is one contiguous run of
\* (left, right), the runs are in increasing order under comp and the
\* elements of a run are in their original order.
C19_BucketingGroupsClasses ==
  (cfg.alg = "bs" /\ PassOver /\ cfg.eshift >= cfg.cshift
     /\ NumClasses <= cfg.maxb) =>
    /\ SeqSet(Corange) = (cfg.p + 1)..(cfg.p + cfg.count)
    /\ Len(Corange) = cfg.count
    /\ \A i \in 1..(Len(Corange) - 1) :
         LET a == Corange[i]
             b == Corange[i + 1]
         IN \/ EKey(a) = EKey(b) /\ a < b
            \/ EKey(a) < EKey(b) /\ Comp(a, b)

\* two classes relocated into their buckets, where a class holds elements
\* that comp tells apart and the pass leaves unsorted
C19_Witness ==
  /\ cfg.alg = "bs" /\ Done /\ cfg.eshift >= cfg.cshift
  /\ NumClasses = 2 /\ cfg.maxb >= 2 /\ nsplice >= 1 /\ cfg.count >= 4
  /\ \E i \in 1..(Len(Corange) - 1) : Comp(Corange[i + 1], Corange[i])

\* three classes in three buckets, put in order by two relocations
C19_WitnessThree ==
  /\ cfg.alg = "bs" /\ Done /\ cfg.eshift >= cfg.cshift
  /\ NumClasses = 3 /\ cfg.maxb = 3 /\ nsplice >= 2

\* C20: during bucket_sort_splice<_max_buckets> at most _max_buckets bucket
\* descriptors are alive: emplace_after is never called on a full flat_list,
\* also when the interval has more classes than _max_buckets.
C20_BucketsWithinCapacity ==
  cfg.alg = "bs" =>
    /\ memory.size_ <= cfg.maxb
    /\ Len(memory.data_) = memory.size_

\* more classes than buckets: the list of descriptors is full and elements
\* were left to the last bucket
C20_Witness ==
  /\ cfg.alg = "bs" /\ Running("bs", "loop") /\ Top.last_buck_dirty
  /\ memory.size_ = cfg.maxb /\ cfg.maxb >= 2 /\ NumClasses > cfg.maxb

\* ------------------------------ the descriptors during the bucketing pass
\* the descriptors in the order of the flat_list (positions in data_)
BSOrder == FLTraverse(memory)

\* count and tail of the j-th descriptor of the list
BSCount(j) == FLGet(memory, BSOrder[j]).first
BSTail(j) == FLGet(memory, BSOrder[j]).second

\* the sum of the counts of the first k descriptors
RECURSIVE BSCountSum(_)
BSCountSum(k) == IF k = 0 THEN 0 ELSE BSCountSum(k - 1) + BSCount(k)

\* the position of an element in the sequence
PosOf(x) == CHOOSE i \in 1..Len(ListSeq) : ListSeq[i] = x

\* the number of elements of the interval before it (all of them when it
\* has reached end)
BSProcessed ==
  IF Top.it = Top.end THEN cfg.count ELSE PosOf(Top.it) - 1 - cfg.p

\* C21: with a relation consistent with comp, after every step of the
\* bucketing pass the descriptors are ordered like the buckets in the
\* sequence: the buckets are consecutive runs of (left, it) in the order of
\* their descriptors, a representative does not compare less than the
\* representative of the descriptor before it, every descriptor but the last
\* designates the last element of its run, and last_buck is the final
\* descriptor.
C21_DescriptorsOrdered ==
  (Running("bs", "loop") /\ cfg.eshift >= cfg.cshift) =>
    LET k == Len(BSOrder) IN
    /\ k >= 1
    /\ k = memory.size_
    /\ BSOrder[k] = Top.last_buck
    /\ \A j \in 1..(k - 1) :
         /\ BSCount(j) >= 1
         /\ BSTail(j) = ListSeq[cfg.p + BSCountSum(j)]
         /\ ~Comp(BSTail(j + 1), BSTail(j))
         /\ \A i \in (cfg.p + BSCountSum(j - 1) + 1)..(cfg.p + BSCountSum(j)) :
              IsEq(ListSeq[i], BSTail(j))
    /\ PosOf(BSTail(k)) > cfg.p + BSCountSum(k - 1)
    /\ PosOf(BSTail(k)) <= cfg.p + BSCountSum(k)

\* three descriptors whose order in the flat_list is not the order of their
\* construction, after a relocation
C21_Witness ==
  /\ Running("bs", "loop") /\ cfg.eshift >= cfg.cshift
  /\ memory.size_ = 3 /\ nsplice >= 2
  /\ BSOrder # <<0, 1, 2>>

\* C23: after each processed element or run of the bucketing pass the
\* counts of the live descriptors add up to the number of elements of the
\* interval processed so far, and to the size of (left, right) when the pass
\* ends; the elements left to the last bucket are counted in it.
C23_CountsAddUp ==
  Running("bs", "loop") =>
    BSCountSum(Len(BSOrder)) = BSProcessed

\* the pass has ended on an interval of four elements with elements left to
\* the last bucket
C23_Witness ==
  /\ Running("bs", "loop") /\ Top.it = Top.end /\ Top.last_buck_dirty
  /\ cfg.count = 4 /\ nsplice >= 1

\* _max_buckets descriptors exist and an element is about to be processed
BSCapReached ==
  Running("bs", "loop") /\ Top.it # Top.end /\ memory.size_ = cfg.maxb

\* the descriptors whose representative is equivalent to x
BSBucketsOf(x) == {j \in 1..Len(BSOrder) : IsEq(x, BSTail(j))}

\* C22: once _max_buckets descriptors exist, no descriptor is added and
\* last_buck is not reassigned; an element or run that belongs to no bucket
\* is not relocated, its size is added to the count of the last bucket and
\* the last bucket is marked dirty; a run equivalent to a bucket other than
\* the last is relocated to the tail of that bucket.
C22_OverflowStaysInLastBucket ==
  [][BSCapReached =>
       LET f == Top
           last == FLGet(memory, f.last_buck)
           run == BSRun(nxt, f.it, f.it, f.end, 1)
           own == BSBucketsOf(f.it)
       IN /\ Running("bs", "loop")'
          /\ Top'.last_buck = f.last_buck
          /\ memory'.size_ = memory.size_
          /\ own = {} =>
               /\ nxt' = nxt
               /\ head_' = head_
               /\ nsplice' = nsplice
               /\ FLGet(memory', f.last_buck).first
                    = last.first + (BSProcessed' - BSProcessed)
               /\ BSProcessed' > BSProcessed
               /\ Top'.last_buck_dirty
          /\ (own # {} /\ ~IsEq(f.it, last.second)) =>
               \E j \in own :
                 /\ BSOrder[j] # f.last_buck
                 /\ nxt'[BSTail(j)] = f.it
                 /\ nsplice' = nsplice + 1
                 /\ FLGet(memory', BSOrder[j])
                      = Bucket(BSCount(j) + run.size, run.it_last)
  ]_vars

\* the cap of two or more buckets was reached, elements were left to the
\* last bucket and a relocation was made
C22_Witness ==
  /\ Running("bs", "loop") /\ Top.last_buck_dirty /\ nsplice >= 1
  /\ memory.size_ = cfg.maxb /\ cfg.maxb >= 2
  /\ FLGet(memory, Top.last_buck).first >= 3

\* ----------------------------------------- the level loop of merge sort
\* the position of a left limit in the sequence (0 for the front sentinel)
LimitPos(l) == IF l = FS THEN 0 ELSE PosOf(l)

\* the running merge_sort_splice is at the start of an iteration of the
\* level loop, or at the end of one
MSAtIteration ==
  /\ Running("ms", "loop")
  /\ Top.step < Top.max_steps \/ Top.step > FirstStep

\* C24: at the start and at the end of every iteration of the level loop of
\* merge_sort_splice the corange (left, last_sorted] is sorted under comp
\* and holds exactly the first l_cnt elements of the original corange,
\* last_sorted is its last element, and the to_sort elements that follow
\* are in their original order.
C24_LevelLoopInvariant ==
  MSAtIteration =>
    LET f == Top
        q == LimitPos(f.left)
        sorted == SubSeq(ListSeq, q + 1, q + f.l_cnt)
        to_sort == IF f.step < f.max_steps
                   THEN MSToSort(f.size, f.max_steps, f.step, f.l_cnt)
                   ELSE 0
    IN /\ f.l_cnt >= 1
       /\ Len(sorted) = f.l_cnt
       /\ SeqSet(sorted) = (q + 1)..(q + f.l_cnt)
       /\ \A i \in 1..(f.l_cnt - 1) : ~Comp(sorted[i + 1], sorted[i])
       /\ f.last_sorted = ListSeq[q + f.l_cnt]
       /\ \A i \in 1..to_sort : ListSeq[q + f.l_cnt + i] = q + f.l_cnt + i

\* the end of an iteration of the outermost call whose merge relocated
C24_Witness ==
  /\ MSAtIteration /\ Len(stack) = 1
  /\ Top.step > FirstStep
  /\ nsplice >= 2 /\ Top.last_sorted # LimitPos(Top.left) + Top.l_cnt

\* the start of the first iteration of a recursive call
C24_WitnessNested ==
  /\ MSAtIteration /\ Len(stack) = 2 /\ Top.step = FirstStep

\* ------------------------------------- the chunk schedule of merge sort
\* The size arithmetic of merge_sort_splice (lines 269-272, 279-280, 290) for
\* counts beyond the lists the sorting specifications build: the frame holds
\* the locals of one call, the calls made on the range are left out.
LVFrame(size) ==
  [fn |-> "lv", pc |-> "start", size |-> size, max_steps |-> 0,
   l_cnt |-> 0, step |-> 0, to_sort |-> 0]

LVCounts ==
  (0..MaxCount)
    \cup {Pow2(k) + d : k \in 1..MaxCountBit, d \in {0 - 1, 0, 1}}

InitLV ==
  /\ val = <<>>
  /\ head_ = <<>>
  /\ last_ = <<>>
  /\ nxt = <<>>
  /\ ret = NoRet
  /\ ncomp = 0
  /\ nsplice = 0
  /\ memory = NoMemory
  /\ cfg = [alg |-> "lv", n |-> 0, cshift |-> 0, eshift |-> 0]
  /\ \E c \in LVCounts : stack = <<LVFrame(c)>>

\* Lines 269-272: the levels and the size of the front
LVStart ==
  /\ Running("lv", "start")
  /\ LET f == Top
         max_steps == BitLen(f.size)
     IN stack' = SetTop([f EXCEPT !.pc = "loop",
                                  !.max_steps = max_steps,
                                  !.l_cnt = MSFirstCount(f.size, max_steps),
                                  !.step = FirstStep])
  /\ UNCHANGED <<val, head_, last_, nxt, ret, ncomp, nsplice, memory, cfg>>

\* Lines 279-280 and 293: the loop test and the size of the chunk
LVLoop ==
  /\ Running("lv", "loop")
  /\ LET f == Top IN
     IF f.step < f.max_steps
     THEN stack' = SetTop([f EXCEPT !.pc = "after_mg",
                             !.to_sort = MSToSort(f.size, f.max_steps,
                                                  f.step, f.l_cnt)])
     ELSE stack' = SetTop([f EXCEPT !.pc = "return"])
  /\ UNCHANGED <<val, head_, last_, nxt, ret, ncomp, nsplice, memory, cfg>>

\* Line 290 and the increment of line 279
LVAfterMG ==
  /\ Running("lv", "after_mg")
  /\ stack' = SetTop([Top EXCEPT !.pc = "loop",
                                 !.l_cnt = Top.l_cnt + Top.to_sort,
                                 !.step = Top.step + 1])
  /\ UNCHANGED <<val, head_, last_, nxt, ret, ncomp, nsplice, memory, cfg>>

InitLevels == InitMS \/ InitLV

NextLevels == NextMS \/ LVStart \/ LVLoop \/ LVAfterMG

SpecLevels == InitLevels /\ [][NextLevels]_vars

\* the frame is a call of merge_sort_splice, with or without its range
IsMSCall(f) == f.fn \in {"ms", "lv"}

\* C25: merge_sort_splice gives insertion sort the whole corange when count
\* is below 4 and otherwise count >> (L - 2) elements, which is 2 or 3, L
\* being the bit length of count; the chunk sorted at every later level has
\* l_cnt or l_cnt + 1 elements; after the last level l_cnt is count; and
\* insertion sort is only ever given fewer than 4 elements.
C25_ChunkSchedule ==
  \A k \in 1..Len(stack) :
    LET f == stack[k] IN
      /\ (f.fn = "is" /\ f.pc = "start" /\ k > 1 /\ stack[k - 1].fn = "ms")
           => /\ f.size = stack[k - 1].l_cnt
              /\ f.size < MergeThreshold
      /\ (IsMSCall(f) /\ f.pc \notin {"start", "return"}
                      /\ f.step <= FirstStep)
           => /\ f.size < 4 => f.l_cnt = f.size
              /\ f.size >= 4
                   => /\ f.l_cnt = Shr(f.size, BitLen(f.size) - 2)
                      /\ f.l_cnt \in {2, 3}
      /\ (IsMSCall(f) /\ f.pc \in {"after_ms", "after_mg"})
           => f.to_sort \in {f.l_cnt, f.l_cnt + 1}
      /\ (IsMSCall(f) /\ f.pc = "return") => f.l_cnt = f.size
      /\ (f.fn = "ms" /\ f.pc = "loop" /\ f.step >= f.max_steps)
           => f.l_cnt = f.size

\* a recursive call on a chunk of l_cnt + 1 elements hands its front to
\* insertion sort
C25_Witness ==
  /\ Len(stack) = 3
  /\ stack[1].fn = "ms" /\ stack[1].to_sort = stack[1].l_cnt + 1
  /\ stack[2].fn = "ms" /\ stack[3].fn = "is" /\ stack[3].pc = "start"
  /\ stack[3].size = 2 /\ stack[2].size = 4

\* a count with more than two levels, all of them done, some chunk having
\* had l_cnt elements and the last one l_cnt + 1
C25_WitnessLevels ==
  /\ Running("lv", "return")
  /\ Top.max_steps >= 6 /\ Top.size # Pow2(Top.max_steps) - 1
  /\ Top.size % 2 = 1

\* ------------------------------------------- the relocations of the merge
RECURSIVE NodesUpTo(_, _, _)
\* the nodes from x up to, and without, stop or the end of the list
NodesUpTo(nx, x, stop) ==
  IF x = stop \/ x = NIL THEN <<>>
  ELSE <<x>> \o NodesUpTo(nx, nx[x], stop)

\* the sizes of (left, middle] and (middle, last] given to the merge
MGLeftSize == cfg.mid - cfg.p
MGRightSize == cfg.count - MGLeftSize

Min(a, b) == IF a <= b THEN a ELSE b

\* C26: every relocation of coinplace_merge_splice moves a maximal
\* contiguous run from the front of the remaining right part: the moved
\* elements all compare less than the left-hand element they are placed
\* before, the element following the run does not, and the relocations
\* number at most the smaller of the sizes of (left, mid] and (mid, right].
C26_MaximalRunsMoved ==
  [][ /\ nsplice' <= Min(MGLeftSize, MGRightSize)
      /\ nsplice' # nsplice =>
           LET f == Top
               end == nxt[f.last]
               rest == nxt'[f.middle]
               run == NodesUpTo(nxt, nxt[f.middle], rest)
               run_last == run[Len(run)]
               before == nxt'[run_last]
               right == NodesUpTo(nxt, nxt[f.middle], end)
               left_part == NodesUpTo(nxt, After(f.left), nxt[f.middle])
           IN /\ nsplice' = nsplice + 1
              /\ Len(run) >= 1
              /\ run = SubSeq(right, 1, Len(run))
              /\ rest = end \/ rest = right[Len(run) + 1]
              /\ before \in SeqSet(left_part)
              /\ \A i \in 1..Len(run) : Comp(run[i], before)
              /\ rest # end => ~Comp(rest, before)
              /\ \E k \in 1..Len(left_part) :
                   /\ left_part[k] = before
                   /\ NodesUpTo(nxt', AfterOf(head_', nxt', 1, f.left), end)
                        = SubSeq(left_part, 1, k - 1) \o run
                            \o SubSeq(left_part, k, Len(left_part))
                            \o SubSeq(right, Len(run) + 1, Len(right))
    ]_vars

\* a right part of three elements has been moved whole in two relocations,
\* as many as the left part has elements
C26_Witness ==
  /\ cfg.alg = "mg" /\ Done
  /\ nsplice = 2 /\ MGLeftSize = 2 /\ MGRightSize = 3
  /\ ret = cfg.mid

\* ------------------------------------------- the short-circuit of the merge
\* the parts given to the merge are in order already: the right part is
\* empty, or its first element does not compare less than *middle
MGInOrder ==
  \/ cfg.mid = cfg.p + cfg.count
  \/ ~Comp(cfg.mid + 1, cfg.mid)

\* C27: when mid == right, or the first element of (mid, right] does not
\* compare less than *mid, coinplace_merge_splice returns right after at
\* most one comparison and without relocating anything.
C27_MergeShortCircuit ==
  (cfg.alg = "mg" /\ MGInOrder) =>
    \/ Running("mg", "start") /\ ncomp = 0 /\ nsplice = 0
    \/ /\ Done
       /\ ret = cfg.p + cfg.count
       /\ ncomp <= 1
       /\ ncomp = 0 <=> cfg.mid = cfg.p + cfg.count
       /\ nsplice = 0
       /\ ListSeq = [i \in 1..cfg.n |-> i]

\* the call has returned after the one comparison, the parts having 2 or
\* more elements each
C27_Witness ==
  /\ cfg.alg = "mg" /\ MGInOrder /\ Done
  /\ ncomp = 1 /\ MGLeftSize >= 2 /\ MGRightSize >= 2

\* the call has returned without a comparison: the right part was empty
C27_WitnessEmpty ==
  /\ cfg.alg = "mg" /\ Done /\ ncomp = 0 /\ MGRightSize = 0

\* ------------------------------------- insertion sort of a sorted corange
\* the corange given to the algorithm is in non-descending order under comp
InputSorted == SortedPart(cfg.p + 1, cfg.p + cfg.count)

\* C28: on a corange that is already sorted insertion_sort_splice relocates
\* nothing and makes exactly count - 1 comparisons when count >= 2.
C28_SortedInputCost ==
  (cfg.alg = "is" /\ InputSorted) =>
    /\ nsplice = 0
    /\ ListSeq = [i \in 1..cfg.n |-> i]
    /\ cfg.count >= 2 =>
         /\ ncomp <= cfg.count - 1
         /\ Done => ncomp = cfg.count - 1
         /\ Running("is", "loop") => ncomp = cfg.count - 1 - Top.size

\* a sorted corange of 4 or more elements, not all equivalent, has been
\* gone through
C28_Witness ==
  /\ cfg.alg = "is" /\ InputSorted /\ Done
  /\ cfg.count >= 4 /\ ncomp = cfg.count - 1
  /\ Comp(cfg.p + 1, cfg.p + cfg.count)

\* ------------------------------------------------------------- termination
\* The four algorithms on their inputs. The code is sequential: a call that
\* has a next step takes it, which is weak fairness of the next-state
\* relation; every step changes a local or the position of the running
\* call, so the steps are those that change stack.
InitTerm ==
  /\ InitIS \/ InitMG \/ InitMS \/ InitBS
  /\ \A i \in DOMAIN val : val[i] < MaxValTerm

NextTerm == NextMS \/ NextBS

SpecTerm == InitTerm /\ [][NextTerm]_vars /\ WF_stack(NextTerm)

\* the nodes of the corange (left, last] of the running call of the merge
MGCorange == NodesUpTo(nxt, After(Top.left), Top.end)

\* Lines 241-247: the scan for the insertion position, made when *rhs is
\* neither in order after *lhs nor less than *first, stops at an element of
\* the sorted part before lhs
ISScanInside ==
  (Running("is", "loop") /\ Top.size > 0
     /\ Comp(nxt[Top.lhs], Top.lhs) /\ ~Comp(nxt[Top.lhs], Top.first))
    => ISFindPos(nxt, nxt[Top.lhs], Top.first, 0).pos
         \in SeqSet(NodesUpTo(nxt, Top.first, Top.lhs))

\* Lines 184-190: the scan of the left part stops at an element up to
\* middle, the scan of the right part at an element up to last
MGScansInside ==
  Running("mg", "loop") =>
    LET f == Top
        fl == MGFindLeft(nxt, f.rhs, f.lhs, 0)
        run == MGRun(nxt, f.rhs, fl.lhs_next, f.end, 0)
        left_part == NodesUpTo(nxt, After(f.left), nxt[f.middle])
        right_part == NodesUpTo(nxt, nxt[f.middle], f.end)
    IN /\ fl.lhs \in SeqSet(left_part)
       /\ fl.lhs_next \in SeqSet(left_part)
       /\ run.rhs \in SeqSet(right_part)
       /\ run.rhs_next \in SeqSet(right_part) \cup {f.end}

\* the calls of merge_sort_splice on the stack, outermost first
MSCalls == SelectSeq(stack, LAMBDA f : f.fn = "ms")

\* Lines 282-284: a recursive call gets a strictly smaller count, and the
\* calls nest at most as deep as count has binary digits
MSRecursionBounded ==
  /\ \A k \in 2..Len(MSCalls) : MSCalls[k].size < MSCalls[k - 1].size
  /\ cfg.alg = "ms" => Len(MSCalls) - 1 <= BitLen(cfg.count)

\* C29: on every input that meets the preconditions each of
\* insertion_sort_splice, coinplace_merge_splice, merge_sort_splice and
\* bucket_sort_splice returns; the inner scans of insertion sort and of the
\* merge stop at an element inside the corange, and merge_sort_splice
\* recurses only on strictly smaller counts, to a depth of at most the bit
\* length of count.
C29_Terminates ==
  /\ <>Done
  /\ [](ISScanInside /\ MGScansInside /\ MSRecursionBounded)

\* merge_sort_splice has returned from 7 elements after relocations
C29_Witness ==
  /\ cfg.alg = "ms" /\ Done /\ cfg.count = 7 /\ nsplice >= 3

\* the recursion is two calls deep
C29_WitnessDepth == Len(MSCalls) = 3

\* bucket_sort_splice has returned after relocations
C29_WitnessBucket ==
  /\ cfg.alg = "bs" /\ Done /\ nsplice >= 2

\* a scan of insertion sort is about to be made
C29_WitnessScan ==
  /\ cfg.alg = "is" /\ Running("is", "loop") /\ Top.size > 0
  /\ Comp(nxt[Top.lhs], Top.lhs) /\ ~Comp(nxt[Top.lhs], Top.first)

\* ----------------------------------------------------- linked_list::last()
\* list l is empty, or last() designates its last element and
\* next(last()) is end()
LastIsLast(l) ==
  LET s == ListSeqOf(head_, nxt, l) IN
  s # <<>> => /\ last_[l] = s[Len(s)]
              /\ nxt[last_[l]] = NIL

\* the lists are linked_lists: the scenario is not one of the std::list or
\* std::forward_list adaptors
OnLinkedLists == cfg.alg = "cs" => cfg.kind = "cosplice"

\* C30: after any sequence of cosplice operations on linked_lists, those of
\* the sorting algorithms included, last() designates the last element of
\* the list: next(last()) == end().
C30_LastDesignatesLast ==
  OnLinkedLists => \A l \in DOMAIN head_ : LastIsLast(l)

====
